---- MODULE Spec2Model ----
(***************************************************************************)
(* Session lifecycle of the streamable-HTTP MCP server of src/index.ts:    *)
(* the registry `transports`, the three route handlers (POST, GET, DELETE),*)
(* the callbacks handed to each session transport (sessionIdGenerator,     *)
(* onsessioninitialized, onclose) and the SIGINT shutdown handler.         *)
(*                                                                         *)
(* Node runs the handlers on one thread: a handler runs without            *)
(* interruption up to its next `await`, so every action below is the code  *)
(* between two suspension points.  The session transport is a library      *)
(* object; what it does inside handleRequest()/close() is a                *)
(* nondeterministic choice over the outcomes visible to index.ts (it       *)
(* answers, it throws, it calls one of the callbacks it was given).        *)
(*                                                                         *)
(* Further components: the authentication gate of the three routes         *)
(* (AuthSpec), the start of the HTTP server with its port fallback         *)
(* (StartSpec), the resumable event store (StoreSpec) and the notes file   *)
(* of src/text.ts with its add_note tool (NotesSpec).                      *)
(***************************************************************************)
EXTENDS Integers, Sequences, FiniteSets, Bags, TLC

\* ------------------------------------------------------------------ bounds
MaxSessions == 2
MaxRequests == 3
MaxEvents == 3
MaxErrors == 3
MaxCalls == 2
MaxSignals == 2
\* The block sizes of node's readFile and writeFile (512 KiB, and 64 KiB for a
\* file whose size is unknown), scaled to the lengths of the modelled files.
ChunkSize == 4
UnknownChunk == 2

\* --------------------------------------------------------------- constants
InvalidRequestCode == -32000
InternalErrorCode == -32603

\* JavaScript's undefined: an absent header, a transport's sessionId before
\* initialization.
undefined == "<undefined>"

\* The n-th value returned by randomUUID(): fresh on every call.
UuidStr == <<"uuid-1", "uuid-2", "uuid-3", "uuid-4", "uuid-5", "uuid-6">>

randomUUID(n) == UuidStr[n]

Uuids == {UuidStr[i] : i \in 1..MaxSessions}

\* The property names every object literal inherits from Object.prototype.
ProtoKeys == {"__defineGetter__", "__defineSetter__", "__lookupGetter__",
              "__lookupSetter__", "__proto__", "constructor", "hasOwnProperty",
              "isPrototypeOf", "propertyIsEnumerable", "toLocaleString", "toString",
              "valueOf"}

\* Values of the mcp-session-id request header: absent, an id the server
\* never issued, a name found on Object.prototype, an id it may issue.
HeaderValues == {undefined, "S-unknown", "constructor"} \cup Uuids

Methods == {"POST", "GET", "DELETE"}

\* req.body as isInitializeRequest sees it.
Bodies == {"initialize", "call"}

\* ToBoolean of a header value (string | undefined).
Truthy(h) == h # undefined /\ h # ""

\* ----------------------------------------------------- the registry object
\* `transports` is an object literal: an insertion-ordered list of own
\* properties over Object.prototype.
OwnKeys(reg) == {reg[i].key : i \in DOMAIN reg}

HasOwn(reg, k) == k \in OwnKeys(reg)

OwnValue(reg, k) == (CHOOSE i \in DOMAIN reg : reg[i].key = k)

\* transports[k]: the own property, else the inherited one, else undefined.
GetProp(reg, k) ==
    IF HasOwn(reg, k)
    THEN [tag |-> "transport", t |-> reg[OwnValue(reg, k)].val]
    ELSE IF k \in ProtoKeys
         THEN [tag |-> "inherited", t |-> 0]
         ELSE [tag |-> "undefined", t |-> 0]

PropTruthy(v) == v.tag # "undefined"

\* transports[k] = t
SetProp(reg, k, t) ==
    IF HasOwn(reg, k)
    THEN [reg EXCEPT ![OwnValue(reg, k)].val = t]
    ELSE Append(reg, [key |-> k, val |-> t])

IsNotKey(e, k) == e.key # k

\* Mutant of DeleteProp: removal by position, where a key that is not found
\* (index -1) removes the last entry.
DeleteProp_Splice(reg, k) ==
    IF k \in {reg[i].key : i \in DOMAIN reg}
    THEN SelectSeq(reg, LAMBDA e : IsNotKey(e, k))
    ELSE SubSeq(reg, 1, Len(reg) - 1)

\* delete transports[k]
DeleteProp(reg, k) == SelectSeq(reg, LAMBDA e : IsNotKey(e, k))

\* The keys a for-in loop will visit, in insertion order.
KeyList(reg) == [i \in DOMAIN reg |-> reg[i].key]

VARIABLES
    transports,   \* the registry (line 237)
    sessionId,    \* sessionId[t]: transport t's sessionId property
    closedWith,   \* closedWith[t]: "open", or t's sessionId when it was closed
    nUuid,        \* number of randomUUID() calls so far
    reqs,         \* the handler invocations suspended at an await (a bag)
    nReq,         \* number of requests received so far
    last,         \* the response written by the step just taken, if any
    sd,           \* sd[n]: the n-th invocation of the SIGINT handler, its position
    exitStatus,   \* "running" until process.exit
    issued        \* history: session ids returned to a client by initialize

lifecycleVars == <<transports, sessionId, closedWith, nUuid, reqs, nReq, last, sd,
                   exitStatus, issued>>

\* The resumable event store of one session (section 4.1 of the design).
VARIABLES
    log,          \* log[s]: the events stored for stream s, in append order
    sink,         \* the reopened push channel and its replay position
    delivered     \* the events the sink has received since it was reopened

storeVars == <<log, sink, delivered>>

\* The --oauth command-line flag (line 31), fixed when the process starts.
VARIABLES
    useOAuth,
    \* oauthMetadata.introspection_endpoint (line 199), fixed when the
    \* process starts; undefined without --oauth
    introspection_endpoint,
    \* the requests suspended in the authentication gate, awaiting
    \* tokenVerifier.verifyAccessToken (line 204)
    gate

authVars == <<useOAuth, introspection_endpoint, gate>>

\* The start of the HTTP server (lines 168-234, 383-405).
VARIABLES
    env,          \* process.env.MCP_PORT
    authEnv,      \* process.env.MCP_AUTH_PORT
    srv           \* the module body's position, then the listen attempt: its
                  \* port, its outcome, the errors so far

startVars == <<env, authEnv, srv>>

\* The notes file and the add_note calls (src/text.ts).
VARIABLES
    file,         \* main-notes.txt: whether it exists, its characters
    calls         \* calls[i]: the i-th call of the add_note tool or of the notes
                  \* resource, its text, its position and its pending file
                  \* operation

notesVars == <<file, calls>>

vars == <<lifecycleVars, storeVars, authVars, startVars, notesVars>>

\* What the actions of one component leave alone.
notLifecycle == <<storeVars, authVars, startVars, notesVars>>

\* What a route handler leaves alone besides the session lifecycle; the
\* route says what happens to the request count and to the gate.
notRoute == <<storeVars, useOAuth, introspection_endpoint, startVars, notesVars>>

notStore == <<lifecycleVars, authVars, startVars, notesVars>>

notStart == <<transports, sessionId, closedWith, nUuid, reqs, nReq, last, sd, issued,
              storeVars, authVars, notesVars>>

notNotes == <<lifecycleVars, storeVars, authVars, startVars>>

Streams == {"s1", "s2"}

Payloads == {"a", "b"}

NoSink == [pc |-> "closed", stream |-> "s1", from |-> 0, cursor |-> 0, queued |-> 0]

Transports == 1..Len(sessionId)

IsClosed(t) == closedWith[t] # "open"

\* History: the session ids that were closed (a transport closed while it
\* carried the id).
ClosedIds == {closedWith[t] : t \in Transports} \ {"open", undefined}

InFlight == BagToSet(reqs)

NoResponse == [method |-> "none", header |-> undefined, body |-> "none",
               status |-> 0, kind |-> "none", code |-> 0, id |-> "none",
               own |-> FALSE, invoked |-> FALSE, t |-> 0]

\* The response to the request of handler state q as the client sees it, with
\* whether the handler called a transport's handleRequest.
Response(q, status, kind, code, id, invoked) ==
    [method |-> q.method, header |-> q.header, body |-> q.body,
     status |-> status, kind |-> kind, code |-> code, id |-> id,
     own |-> q.own, invoked |-> invoked, t |-> q.t]

\* Handler q suspends at an await / resumes as q2 / returns.
Suspend(q) == reqs (+) SetToBag({q})

Resume(q, q2) == (reqs (-) SetToBag({q})) (+) SetToBag({q2})

Return(q) == reqs (-) SetToBag({q})

StoreInit ==
    /\ log = [s \in Streams |-> <<>>]
    /\ sink = NoSink
    /\ delivered = <<>>

\* The state after the module has run, whatever the command line.
Constructed ==
    /\ StoreInit
    /\ transports = <<>>
    /\ sessionId = <<>>
    /\ closedWith = <<>>
    /\ nUuid = 0
    /\ reqs = EmptyBag
    /\ nReq = 0
    /\ last = NoResponse
    /\ sd = <<>>
    /\ exitStatus = "running"
    /\ issued = {}
    /\ gate = EmptyBag

\* ------------------------------------------------------------ the startup
\* The fallback port of line 168.
DefaultPort == 3000

\* The fallback port of line 169.
DefaultAuthPort == 3001

LF == "\n"

\* The code points ECMAScript calls WhiteSpace and LineTerminator, which
\* String.prototype.trim removes and Number.parseInt skips; one outside
\* ASCII is written by its code point.
WhiteSpace == {"\t", LF, "U+000B", "\f", "\r", " ", "U+00A0", "U+1680", "U+2000",
               "U+2001", "U+2002", "U+2003", "U+2004", "U+2005", "U+2006",
               "U+2007", "U+2008", "U+2009", "U+200A", "U+2028", "U+2029",
               "U+202F", "U+205F", "U+3000", "U+FEFF"}

\* Number.parseInt's NaN: no integer; it stands below every integer a string
\* can be evaluated to.
NaN == (-2147483647) - 1

DigitVal == [c \in {"0", "1", "2", "3", "4", "5", "6", "7", "8", "9"} |->
               CASE c = "0" -> 0 [] c = "1" -> 1 [] c = "2" -> 2 [] c = "3" -> 3
                 [] c = "4" -> 4 [] c = "5" -> 5 [] c = "6" -> 6 [] c = "7" -> 7
                 [] c = "8" -> 8 [] c = "9" -> 9]

RECURSIVE DigitPrefix(_)
\* The longest prefix of decimal digits of the string s.
DigitPrefix(s) ==
    IF s = <<>> \/ Head(s) \notin DOMAIN DigitVal
    THEN <<>>
    ELSE <<Head(s)>> \o DigitPrefix(Tail(s))

RECURSIVE DecimalValue(_)
DecimalValue(d) ==
    IF d = <<>>
    THEN 0
    ELSE DecimalValue(SubSeq(d, 1, Len(d) - 1)) * 10 + DigitVal[d[Len(d)]]

RECURSIVE SkipWhiteSpace(_)
\* The string s without its leading white space.
SkipWhiteSpace(s) ==
    IF s # <<>> /\ Head(s) \in WhiteSpace THEN SkipWhiteSpace(Tail(s)) ELSE s

\* Number.parseInt(s, 10): leading white space is skipped, one sign is read,
\* and the result is the signed value of the decimal digits that follow, NaN
\* without any (-0 and 0 are the same port).
parseInt(s) ==
    LET t == SkipWhiteSpace(s)
        signed == t # <<>> /\ Head(t) \in {"+", "-"}
        d == DigitPrefix(IF signed THEN Tail(t) ELSE t)
    IN  IF d = <<>>
        THEN NaN
        ELSE IF signed /\ Head(t) = "-" THEN 0 - DecimalValue(d) ELSE DecimalValue(d)

\* process.env.MCP_PORT: unset, or a string of characters.
NoEnv == [set |-> FALSE, val |-> <<>>]

EnvStrings == {<<>>, <<"0">>, <<"8", "0">>, <<"8", "0", "a">>, <<"a">>,
               <<"3", "0", "0", "0">>, <<" ", "8", "0">>, <<"\t", LF, "8", "1">>,
               <<"+", "8", "0">>, <<"-", "0">>, <<"-", "5">>, <<" ">>,
               <<"+", " ", "8">>, <<"U+00A0", "-", "0", "7">>}

EnvValues == {NoEnv} \cup {[set |-> TRUE, val |-> v] : v \in EnvStrings}

\* ToBoolean(process.env.MCP_PORT): undefined and "" are falsy.
EnvTruthy(e) == e.set /\ e.val # <<>>

\* const MCP_PORT = process.env.MCP_PORT ? Number.parseInt(...) : 3000
MCP_PORT(e) == IF EnvTruthy(e) THEN parseInt(e.val) ELSE DefaultPort

\* process.env.MCP_AUTH_PORT: unset, or a string of characters.
AuthEnvStrings == {<<>>, <<"8", "0">>, <<"a">>, <<"-", "1">>,
                   <<"7", "0", "0", "0", "0">>, <<" ", "0">>}

AuthEnvValues == {NoEnv} \cup {[set |-> TRUE, val |-> v] : v \in AuthEnvStrings}

\* const AUTH_PORT = process.env.MCP_AUTH_PORT ? Number.parseInt(...) : 3001
AUTH_PORT(e) == IF EnvTruthy(e) THEN parseInt(e.val) ELSE DefaultAuthPort

\* The error codes of the server's 'error' event: the one line 394 tests for
\* and another one.
ErrorCodes == {"EADDRINUSE", "EACCES"}

\* The ports the system may pick for a listen on port 0.
EphemeralPorts == {49152, 49153}

\* listen() refuses a port that is not an integer of 0..65535 by throwing.
ValidPort(p) == p \in 0..65535

\* new URL(`http://localhost:${port}...`) (lines 177, 178) throws unless the
\* port, written in decimal, is an integer of 0..65535 (NaN and negative
\* numbers are no port).
URLValid(port) == port \in 0..65535

\* The server is up on the default port, MCP_PORT and MCP_AUTH_PORT being
\* unset.
Listening ==
    /\ env = NoEnv
    /\ authEnv = NoEnv
    /\ srv = [pc |-> "listening", port |-> DefaultPort, actual |-> DefaultPort,
              fallbacks |-> 0, errors |-> <<>>]

\* --------------------------------------------------------------- the notes
\* The line feed character.
\* DEFAULT_NOTES (line 10): three notes joined by line feeds.
DEFAULT_NOTES == <<"T", LF, "B", LF, "M">>

RECURSIVE TrimStart(_)
TrimStart(s) ==
    IF s # <<>> /\ Head(s) \in WhiteSpace THEN TrimStart(Tail(s)) ELSE s

RECURSIVE TrimEnd(_)
TrimEnd(s) ==
    IF s # <<>> /\ s[Len(s)] \in WhiteSpace
    THEN TrimEnd(SubSeq(s, 1, Len(s) - 1))
    ELSE s

\* text.trim()
trim(s) == TrimEnd(TrimStart(s))

\* existing.length > 0 && !existing.endsWith('\n') ? '\n' : ''
separator(existing) ==
    IF Len(existing) > 0 /\ existing[Len(existing)] # LF THEN <<LF>> ELSE <<>>

\* `${existing}${separator}${trimmed}\n`
Appended(existing, trimmed) == existing \o separator(existing) \o trimmed \o <<LF>>

\* The texts of the add_note calls (z.string().min(1)): blank ones, plain
\* ones, ones with white space around.
Texts == {<<" ">>, <<"U+2028", "\f">>, <<"a">>, <<"\t", "b", "\r", LF>>,
          <<"c", " ", "d">>}

NoFile == [exists |-> FALSE, text |-> <<>>]

\* What main-notes.txt may hold when the first call arrives.
InitialFiles == {NoFile} \cup {[exists |-> TRUE, text |-> x] :
                                  x \in {<<>>, <<"x">>, <<"x", LF>>}}

\* The byte a write past the end of the file leaves in the gap.
NUL == "NUL"

Min(a, b) == IF a < b THEN a ELSE b

\* The file content after a write of chunk at offset pos of a descriptor.
Overlay(text, pos, chunk) ==
    LET padded == IF Len(text) < pos
                  THEN text \o [k \in 1..(pos - Len(text)) |-> NUL]
                  ELSE text
    IN  SubSeq(padded, 1, pos) \o chunk
           \o SubSeq(padded, pos + Len(chunk) + 1, Len(padded))

\* A call that was not made: op is the operation ("add_note" or "read"), text
\* the tool's argument, existing what the call read; data, pos, size and
\* length belong to its pending readFile or writeFile.
NoCall == [op |-> "none", pc |-> "new", text |-> <<>>, existing |-> <<>>,
           data |-> <<>>, pos |-> 0, size |-> 0, length |-> 0]

NoCalls == [i \in 1..MaxCalls |-> NoCall]

\* No call was made.
NotesIdle ==
    /\ file = NoFile
    /\ calls = NoCalls

\* The URL setupAuthServer gives for token introspection.
Endpoint == "introspect"

\* oauthMetadata exists with --oauth only (lines 174-183); it names an
\* introspection endpoint or none.
Metadata ==
    introspection_endpoint \in (IF useOAuth THEN {undefined, Endpoint} ELSE {undefined})

\* The server started without --oauth.
Init ==
    /\ Constructed
    /\ useOAuth = FALSE
    /\ Metadata
    /\ Listening
    /\ NotesIdle

\* The server started with or without --oauth.
AuthInit ==
    /\ Constructed
    /\ useOAuth \in BOOLEAN
    /\ Metadata
    /\ Listening
    /\ NotesIdle

\* The server is up and the notes file is in any of its initial conditions.
NotesInit ==
    /\ Constructed
    /\ useOAuth = FALSE
    /\ Metadata
    /\ Listening
    /\ file \in InitialFiles
    /\ calls = NoCalls

\* The process when the module body reaches line 168: MCP_PORT and
\* MCP_AUTH_PORT are unset or any string, --oauth is given or not, no
\* metadata exists yet and startServer (line 405) was not called.
StartInit ==
    /\ Constructed
    /\ useOAuth \in BOOLEAN
    /\ introspection_endpoint = undefined
    /\ env \in EnvValues
    /\ authEnv \in AuthEnvValues
    /\ srv = [pc |-> "load", port |-> MCP_PORT(env), actual |-> 0, fallbacks |-> 0,
              errors |-> <<>>]
    /\ NotesIdle

Running == exitStatus = "running"

\* ------------------------------------------------------- the POST handler
\* res.status(400).json({jsonrpc, error: {code: -32000, ...}, id: null})
BadRequest(q) == Response(q, 400, "jsonrpc", InvalidRequestCode, "null", FALSE)

\* The catch block: res.status(500).json(...) unless headers were sent.
InternalError(q, sent, invoked) ==
    IF sent
    THEN Response(q, 200, "partial", 0, "none", invoked)
    ELSE Response(q, 500, "jsonrpc", InternalErrorCode, "null", invoked)

\* The POST handler is called for a request with header h and body b: the
\* handler up to its first await.
mcpPostHandler(h, b) ==
    /\ Running
    /\ LET v == GetProp(transports, h)
           q == [method |-> "POST", header |-> h, body |-> b, pc |-> "handling",
                 t |-> v.t, own |-> HasOwn(transports, h)]
       IN  IF Truthy(h) /\ PropTruthy(v)
           THEN \* reuse the transport found; line 301 calls its handleRequest
                IF v.tag = "transport"
                THEN /\ reqs' = Suspend(q)
                     /\ last' = NoResponse
                     /\ UNCHANGED <<sessionId, closedWith>>
                ELSE \* an inherited property has no handleRequest: TypeError,
                     \* caught at line 302
                     /\ last' = InternalError(q, FALSE, FALSE)
                     /\ UNCHANGED <<reqs, sessionId, closedWith>>
           ELSE IF ~Truthy(h) /\ b = "initialize"
                THEN \* new StreamableHTTPServerTransport; await server.connect
                     /\ Len(sessionId) < MaxSessions
                     /\ sessionId' = Append(sessionId, undefined)
                     /\ closedWith' = Append(closedWith, "open")
                     /\ reqs' = Suspend([q EXCEPT !.pc = "connecting",
                                                  !.t = Len(sessionId) + 1])
                     /\ last' = NoResponse
                ELSE /\ last' = BadRequest(q)
                     /\ UNCHANGED <<reqs, sessionId, closedWith>>
    /\ UNCHANGED <<transports, nUuid, sd, exitStatus, issued>>
    /\ UNCHANGED notRoute

\* Mutant of sessionIdGenerator: the transport is stored in the registry as
\* soon as its id is generated, before onsessioninitialized is called.
sessionIdGenerator_Publishing(q) ==
    /\ Running
    /\ q.pc = "connecting"
    /\ nUuid' = nUuid + 1
    /\ sessionId' = [sessionId EXCEPT ![q.t] = randomUUID(nUuid + 1)]
    /\ transports' = SetProp(transports, randomUUID(nUuid + 1), q.t)
    /\ reqs' = Resume(q, [q EXCEPT !.pc = "allocated"])
    /\ last' = NoResponse
    /\ UNCHANGED <<closedWith, nReq, sd, exitStatus, issued>>
    /\ UNCHANGED notLifecycle

\* server.connect resolved and handleRequest (line 284) runs: the transport
\* calls the sessionIdGenerator it was given.
sessionIdGenerator(q) ==
    /\ Running
    /\ q.pc = "connecting"
    /\ nUuid' = nUuid + 1
    /\ sessionId' = [sessionId EXCEPT ![q.t] = randomUUID(nUuid + 1)]
    /\ reqs' = Resume(q, [q EXCEPT !.pc = "allocated"])
    /\ last' = NoResponse
    /\ UNCHANGED <<transports, closedWith, nReq, sd, exitStatus, issued>>
    /\ UNCHANGED notLifecycle

\* await server.connect(transport) (line 282) rejects: handleRequest is not
\* called and the catch block answers.
ConnectRejects(q) ==
    /\ Running
    /\ q.pc = "connecting"
    /\ reqs' = Return(q)
    /\ last' = InternalError(q, FALSE, FALSE)
    /\ UNCHANGED <<transports, sessionId, closedWith, nUuid, nReq, sd, exitStatus,
                   issued>>
    /\ UNCHANGED notLifecycle

\* handleRequest (line 284) throws before the transport allocated a session.
InitializeThrows(q) ==
    /\ Running
    /\ q.pc = "connecting"
    /\ reqs' = Return(q)
    /\ last' = InternalError(q, FALSE, TRUE)
    /\ UNCHANGED <<transports, sessionId, closedWith, nUuid, nReq, sd, exitStatus,
                   issued>>
    /\ UNCHANGED notLifecycle

\* Mutant of Register: the callback forgets to store the transport.
Register_Forgotten(reg, t) == reg

\* transports[sessionId] = transport
Register(reg, t) == SetProp(reg, sessionId[t], t)

\* The transport calls the onsessioninitialized callback of handler q.
onsessioninitialized(q) ==
    /\ Running
    /\ q.pc = "allocated"
    /\ transports' = Register(transports, q.t)
    /\ reqs' = Resume(q, [q EXCEPT !.pc = "registered"])
    /\ last' = NoResponse
    /\ UNCHANGED <<sessionId, closedWith, nUuid, nReq, sd, exitStatus, issued>>
    /\ UNCHANGED notLifecycle

\* await transport.handleRequest (line 284) settles: the initialize response
\* went out with the session id, or the call threw (line 302).
InitializeSettles(q) ==
    /\ Running
    /\ q.pc = "registered"
    /\ reqs' = Return(q)
    /\ \/ /\ last' = Response(q, 200, "transport", 0, "request", TRUE)
          /\ issued' = issued \cup {sessionId[q.t]}
       \/ /\ \E sent \in BOOLEAN : last' = InternalError(q, sent, TRUE)
          /\ UNCHANGED issued
    /\ UNCHANGED <<transports, sessionId, closedWith, nUuid, nReq, sd, exitStatus>>
    /\ UNCHANGED notLifecycle

\* Mutant of onclose: the handler removes the oldest entry of the registry,
\* whatever its key.
onclose_DropsOldest(reg, t) == IF reg = <<>> THEN reg ELSE Tail(reg)

\* Mutant of onclose: the handler does not remove the transport.
onclose_Leaky(reg, t) == reg

\* The transport's onclose handler (lines 271-277) run on registry reg.
onclose(reg, t) ==
    LET sid == sessionId[t]
    IN  IF Truthy(sid) /\ PropTruthy(GetProp(reg, sid))
        THEN DeleteProp(reg, sid)
        ELSE reg

\* The library closes transport t: close() marks it closed and calls onclose.
Close(t) ==
    /\ closedWith' = [closedWith EXCEPT ![t] = sessionId[t]]
    /\ transports' = onclose(transports, t)

\* await transport.handleRequest (line 301) settles for a routed POST.
PostSettles(q) ==
    /\ Running
    /\ q.pc = "handling"
    /\ q.method = "POST"
    /\ reqs' = Return(q)
    /\ \/ last' = Response(q, 200, "transport", 0, "request", TRUE)
       \/ \E sent \in BOOLEAN : last' = InternalError(q, sent, TRUE)
    /\ UNCHANGED <<transports, sessionId, closedWith, nUuid, nReq, sd, exitStatus,
                   issued>>
    /\ UNCHANGED notLifecycle

\* ------------------------------------------------- the GET/DELETE handlers
\* res.status(400).send('Invalid or missing session ID')
MissingSession(q) == Response(q, 400, "text", 0, "none", FALSE)

\* The GET handler has no try/catch: a throw rejects the handler's promise and
\* the framework's default error handler answers.
Uncaught(q, sent, invoked) ==
    IF sent
    THEN Response(q, 200, "partial", 0, "none", invoked)
    ELSE Response(q, 500, "framework", 0, "none", invoked)

\* The DELETE handler's catch block (lines 368-373).
TerminationError(q, sent, invoked) ==
    IF sent
    THEN Response(q, 200, "partial", 0, "none", invoked)
    ELSE Response(q, 500, "text", 0, "none", invoked)

\* The GET handler is called for a request with header h: the handler up to
\* its await (line 345).
mcpGetHandler(h) ==
    /\ Running
    /\ LET v == GetProp(transports, h)
           q == [method |-> "GET", header |-> h, body |-> "none", pc |-> "handling",
                 t |-> v.t, own |-> HasOwn(transports, h)]
       IN  IF ~Truthy(h) \/ ~PropTruthy(v)
           THEN /\ last' = MissingSession(q)
                /\ UNCHANGED reqs
           ELSE IF v.tag = "transport"
                THEN /\ reqs' = Suspend(q)
                     /\ last' = NoResponse
                ELSE \* TypeError at line 345
                     /\ last' = Uncaught(q, FALSE, FALSE)
                     /\ UNCHANGED reqs
    /\ UNCHANGED <<transports, sessionId, closedWith, nUuid, sd, exitStatus, issued>>
    /\ UNCHANGED notRoute

\* await transport.handleRequest (line 345) settles for a routed GET.
GetSettles(q) ==
    /\ Running
    /\ q.pc = "handling"
    /\ q.method = "GET"
    /\ reqs' = Return(q)
    /\ \/ last' = Response(q, 200, "transport", 0, "none", TRUE)
       \/ \E sent \in BOOLEAN : last' = Uncaught(q, sent, TRUE)
    /\ UNCHANGED <<transports, sessionId, closedWith, nUuid, nReq, sd, exitStatus,
                   issued>>
    /\ UNCHANGED notLifecycle

\* The DELETE handler is called for a request with header h: the handler up
\* to its await (line 367).
mcpDeleteHandler(h) ==
    /\ Running
    /\ LET v == GetProp(transports, h)
           q == [method |-> "DELETE", header |-> h, body |-> "none",
                 pc |-> "handling", t |-> v.t, own |-> HasOwn(transports, h)]
       IN  IF ~Truthy(h) \/ ~PropTruthy(v)
           THEN /\ last' = MissingSession(q)
                /\ UNCHANGED reqs
           ELSE IF v.tag = "transport"
                THEN /\ reqs' = Suspend(q)
                     /\ last' = NoResponse
                ELSE \* TypeError at line 367, caught at line 368
                     /\ last' = TerminationError(q, FALSE, FALSE)
                     /\ UNCHANGED reqs
    /\ UNCHANGED <<transports, sessionId, closedWith, nUuid, sd, exitStatus, issued>>
    /\ UNCHANGED notRoute

\* await transport.handleRequest (line 367) settles for a routed DELETE: the
\* transport closed itself (its onclose handler ran) and acknowledged, or the
\* call threw.
DeleteSettles(q) ==
    /\ Running
    /\ q.pc = "handling"
    /\ q.method = "DELETE"
    /\ reqs' = Return(q)
    /\ \/ /\ Close(q.t)
          /\ last' = Response(q, 200, "transport", 0, "none", TRUE)
       \/ /\ \E sent \in BOOLEAN : last' = TerminationError(q, sent, TRUE)
          /\ UNCHANGED <<transports, closedWith>>
    /\ UNCHANGED <<sessionId, nUuid, nReq, sd, exitStatus, issued>>
    /\ UNCHANGED notLifecycle

\* The transport's own close event: the library closes transport t and calls
\* the onclose handler it was given.
TransportCloses(t) ==
    /\ Running
    /\ ~IsClosed(t)
    /\ Close(t)
    /\ last' = NoResponse
    /\ UNCHANGED <<sessionId, nUuid, reqs, nReq, sd, exitStatus, issued>>
    /\ UNCHANGED notLifecycle

\* ------------------------------------------------------ the SIGINT handler
\* The listener of line 408 is registered once the module body has run, that
\* is after startServer(MCP_PORT) of line 405 returned.
HandlerRegistered == srv.pc \in {"binding", "listening"}

\* The current key of the for-in loop of invocation n.
LoopKey(n) == sd[n].keys[sd[n].idx]

\* for-in does not visit a key deleted before its turn: the first position
\* from i on whose key is still an own property of reg (past the end if none).
NextIdx(reg, keys, i) ==
    IF \E j \in i..Len(keys) : HasOwn(reg, keys[j])
    THEN CHOOSE j \in i..Len(keys) :
            /\ HasOwn(reg, keys[j])
            /\ \A m \in i..(j - 1) : ~HasOwn(reg, keys[m])
    ELSE Len(keys) + 1

\* sd with r as the record of invocation n (a new invocation is appended).
PutSd(n, r) == IF n > Len(sd) THEN Append(sd, r) ELSE [sd EXCEPT ![n] = r]

\* The loop body of invocation n from position i of keys, the registry being
\* reg, up to the handler's next await. Past the last key: process.exit(0)
\* (line 422), after which no handler resumes. Else
\* transports[sessionId].close() is called (line 415): the transport closes
\* and runs its onclose handler, after which close returns or throws; or
\* close throws before the transport closed; or its promise never settles.
LoopFrom(n, reg, keys, i, att) ==
    LET j == NextIdx(reg, keys, i)
    IN  IF j > Len(keys)
        THEN /\ transports' = reg
             /\ sd' = PutSd(n, [pc |-> "exited", keys |-> keys, idx |-> j,
                                attempted |-> att])
             /\ exitStatus' = "0"
             /\ reqs' = EmptyBag
             /\ UNCHANGED closedWith
        ELSE LET t == GetProp(reg, keys[j]).t
                 att2 == att \cup {keys[j]}
             IN  /\ \/ /\ closedWith' = [closedWith EXCEPT ![t] = sessionId[t]]
                       /\ transports' = onclose(reg, t)
                       /\ \E pc \in {"closed", "threw"} :
                             sd' = PutSd(n, [pc |-> pc, keys |-> keys, idx |-> j,
                                             attempted |-> att2])
                    \/ /\ transports' = reg
                       /\ UNCHANGED closedWith
                       /\ \E pc \in {"threw", "pending"} :
                             sd' = PutSd(n, [pc |-> pc, keys |-> keys, idx |-> j,
                                             attempted |-> att2])
                 /\ UNCHANGED <<exitStatus, reqs>>

\* A signal arrives: node calls the listener (on every signal, also while an
\* earlier invocation is suspended); for-in fixes the keys it will visit and
\* the loop runs to its first await.
SIGINT ==
    /\ Running
    /\ HandlerRegistered
    /\ Len(sd) < MaxSignals
    /\ LoopFrom(Len(sd) + 1, transports, KeyList(transports), 1, {})
    /\ last' = NoResponse
    /\ UNCHANGED <<sessionId, nUuid, nReq, issued>>
    /\ UNCHANGED notLifecycle

\* Mutant of ShutdownResume: the try/catch encloses the whole loop, so the
\* first close that throws ends the loop.
ShutdownResume_CatchOutside(n) ==
    /\ Running
    /\ sd[n].pc \in {"closed", "threw"}
    /\ IF sd[n].pc = "closed"
       THEN LoopFrom(n, DeleteProp(transports, LoopKey(n)), sd[n].keys, sd[n].idx + 1,
                     sd[n].attempted)
       ELSE LoopFrom(n, transports, sd[n].keys, Len(sd[n].keys) + 1, sd[n].attempted)
    /\ last' = NoResponse
    /\ UNCHANGED <<sessionId, nUuid, nReq, issued>>
    /\ UNCHANGED notLifecycle

\* The await of line 415 of invocation n resumes: delete transports[sessionId]
\* (line 416), or the catch block (line 418); then the loop goes on to its
\* next await.
ShutdownResume(n) ==
    /\ Running
    /\ sd[n].pc \in {"closed", "threw"}
    /\ IF sd[n].pc = "closed"
       THEN LoopFrom(n, DeleteProp(transports, LoopKey(n)), sd[n].keys, sd[n].idx + 1,
                     sd[n].attempted)
       ELSE LoopFrom(n, transports, sd[n].keys, sd[n].idx + 1, sd[n].attempted)
    /\ last' = NoResponse
    /\ UNCHANGED <<sessionId, nUuid, nReq, issued>>
    /\ UNCHANGED notLifecycle

\* ------------------------------------------------------ the module body
\* What the module body of lines 168-234 leaves alone.
notSetup == <<transports, sessionId, closedWith, nUuid, reqs, nReq, last, sd, issued,
              storeVars, useOAuth, gate, notesVars>>

\* Lines 168-234: the ports are read; with --oauth the two URLs are built
\* (lines 177, 178), and new URL throws for a port that is none, which
\* nothing catches: the process ends with status 1 before startServer is
\* called; else setupAuthServer returns the metadata (line 180) and the
\* gate is built. Without --oauth the block is skipped.
setupOAuth ==
    /\ Running
    /\ srv.pc = "load"
    /\ IF useOAuth /\ ~(URLValid(MCP_PORT(env)) /\ URLValid(AUTH_PORT(authEnv)))
       THEN /\ srv' = [srv EXCEPT !.pc = "failed"]
            /\ exitStatus' = "1"
            /\ UNCHANGED introspection_endpoint
       ELSE /\ srv' = [srv EXCEPT !.pc = "start"]
            /\ introspection_endpoint' \in
                  (IF useOAuth THEN {undefined, Endpoint} ELSE {undefined})
            /\ UNCHANGED exitStatus
    /\ UNCHANGED <<env, authEnv, notSetup>>

\* ----------------------------------------------------------- startServer
\* startServer(MCP_PORT), line 405, and the rest of the module body:
\* app.listen(port) starts binding and the SIGINT listener is registered
\* (line 408); or listen throws for an invalid port, which nothing catches:
\* the process ends with status 1.
startServer ==
    /\ Running
    /\ srv.pc = "start"
    /\ IF ValidPort(srv.port)
       THEN /\ srv' = [srv EXCEPT !.pc = "binding"]
            /\ UNCHANGED exitStatus
       ELSE /\ srv' = [srv EXCEPT !.pc = "failed"]
            /\ exitStatus' = "1"
    /\ UNCHANGED <<env, authEnv, notStart>>

\* The listen callback (lines 384-391): the server is bound; on port 0 the
\* system picked the port.
listening ==
    /\ Running
    /\ srv.pc = "binding"
    /\ \E a \in (IF srv.port = 0 THEN EphemeralPorts ELSE {srv.port}) :
          srv' = [srv EXCEPT !.pc = "listening", !.actual = a]
    /\ UNCHANGED <<env, authEnv, exitStatus, notStart>>

\* Mutant of FallBack: the test does not look at the port that failed.
FallBack_AnyPort(code, port) == code = "EADDRINUSE" /\ ~EnvTruthy(env)

\* error.code === 'EADDRINUSE' && !process.env.MCP_PORT && port !== 0
FallBack(code, port) == code = "EADDRINUSE" /\ ~EnvTruthy(env) /\ port # 0

\* What the 'error' listener leaves alone: it answers no request, and
\* process.exit ends every suspended handler.
notError == <<transports, sessionId, closedWith, nUuid, nReq, sd, issued,
              storeVars, authVars, notesVars>>

\* server.on('error') (lines 393-402): startServer(0), or process.exit(1),
\* after which no handler resumes. The listener stays registered once the
\* server is bound; EADDRINUSE is an error of binding only.
onerror(code) ==
    /\ Running
    /\ \/ srv.pc = "binding"
       \/ srv.pc = "listening" /\ code # "EADDRINUSE"
    /\ Len(srv.errors) < MaxErrors
    /\ IF FallBack(code, srv.port)
       THEN /\ srv' = [srv EXCEPT !.port = 0, !.fallbacks = srv.fallbacks + 1,
                                  !.errors = Append(srv.errors, code)]
            /\ UNCHANGED <<exitStatus, reqs>>
       ELSE /\ srv' = [srv EXCEPT !.pc = "failed",
                                  !.errors = Append(srv.errors, code)]
            /\ exitStatus' = "1"
            /\ reqs' = EmptyBag
    /\ last' = NoResponse
    /\ UNCHANGED <<env, authEnv, notError>>

StartNext ==
    \/ setupOAuth
    \/ startServer
    \/ listening
    \/ \E code \in ErrorCodes : onerror(code)
    \/ SIGINT

StartSpec == StartInit /\ [][StartNext]_vars

\* -------------------------------------------------------------- add_note
\* The add_note tool is called with text x (line 73): appendNote, then
\* ensureNotesFile, up to `await mkdir` (line 17).
add_note(i, x) ==
    /\ calls[i].pc = "new"
    /\ calls' = [calls EXCEPT ![i] = [NoCall EXCEPT !.op = "add_note", !.pc = "mkdir",
                                                    !.text = x]]
    /\ UNCHANGED <<file, notNotes>>

\* The resource 'main-notes-resource' is read (line 51): readNotes, then
\* ensureNotesFile, up to `await mkdir` (line 17).
readNotes(i) ==
    /\ calls[i].pc = "new"
    /\ calls' = [calls EXCEPT ![i] = [NoCall EXCEPT !.op = "read", !.pc = "mkdir"]]
    /\ UNCHANGED <<file, notNotes>>

\* `await mkdir` (line 17) resolves (the directory exists) and the readFile of
\* line 19 is started.
mkdir(i) ==
    /\ calls[i].pc = "mkdir"
    /\ calls' = [calls EXCEPT ![i].pc = "ensureRead"]
    /\ UNCHANGED <<file, notNotes>>

\* A writeFile of content is started by call i, which goes to position pc.
StartWrite(i, pc, content) ==
    [calls EXCEPT ![i].pc = pc, ![i].data = content, ![i].pos = 0]

\* A readFile is started by call i.
StartRead(i) ==
    [calls EXCEPT ![i].pc = "stat", ![i].data = <<>>, ![i].pos = 0]

\* The readFile of line 19 settles: it resolves (its content is dropped; its
\* reads change and tell nothing) and ensureNotesFile returns to the readFile
\* of line 27 or 32, or it rejects because the file does not exist and the
\* catch block starts the writeFile of line 21.
ensureRead(i) ==
    /\ calls[i].pc = "ensureRead"
    /\ calls' = IF file.exists
                THEN StartRead(i)
                ELSE StartWrite(i, "create", DEFAULT_NOTES \o <<LF>>)
    /\ UNCHANGED <<file, notNotes>>

\* writeFile (lines 21 and 39) opens the file with flag 'w': the file is
\* created or truncated.
writeFile_open(i) ==
    /\ calls[i].pc \in {"create", "write"}
    /\ file' = [exists |-> TRUE, text |-> <<>>]
    /\ calls' = [calls EXCEPT ![i].pc = IF calls[i].pc = "create" THEN "creating"
                                                                  ELSE "writing"]
    /\ UNCHANGED notNotes

\* writeFile writes its next block at the position of its descriptor; after
\* the last one ensureNotesFile returns to the readFile of line 27 or 32
\* (line 21), or the tool answers (line 39).
writeFile_write(i) ==
    /\ calls[i].pc \in {"creating", "writing"}
    /\ LET n == Min(ChunkSize, Len(calls[i].data))
           rest == SubSeq(calls[i].data, n + 1, Len(calls[i].data))
       IN  /\ file' = [file EXCEPT !.text = Overlay(file.text, calls[i].pos,
                                                    SubSeq(calls[i].data, 1, n))]
           /\ calls' = IF rest # <<>>
                       THEN [calls EXCEPT ![i].data = rest, ![i].pos = calls[i].pos + n]
                       ELSE IF calls[i].pc = "creating"
                            THEN StartRead(i)
                            ELSE [calls EXCEPT ![i].pc = "done", ![i].data = <<>>,
                                               ![i].pos = 0]
    /\ UNCHANGED notNotes

\* readFile (lines 27 and 32) opened the file and reads its size, which sets
\* the length of its reads.
readFile_fstat(i) ==
    /\ calls[i].pc = "stat"
    /\ calls' = [calls EXCEPT ![i].pc = "reading",
                              ![i].size = Len(file.text),
                              ![i].length = IF Len(file.text) = 0
                                            THEN UnknownChunk
                                            ELSE Min(Len(file.text), ChunkSize)]
    /\ UNCHANGED <<file, notNotes>>

\* The content writeFile stores (line 39): built from what was read at
\* line 32.
WriteBack(existing, text) == Appended(existing, trim(text))

\* The call goes on with what readFile returned: readNotes returns it
\* (line 27); appendNote (lines 32-39) returns for a blank text and else
\* starts the writeFile of line 39.
Returned(i, content) ==
    LET c == [calls EXCEPT ![i].existing = content, ![i].data = <<>>, ![i].pos = 0,
                           ![i].size = 0, ![i].length = 0]
    IN  IF calls[i].op = "read" \/ trim(calls[i].text) = <<>>
        THEN [c EXCEPT ![i].pc = "done"]
        ELSE [c EXCEPT ![i].pc = "write", ![i].data = WriteBack(content, calls[i].text)]

\* readFile reads its next block at the position of its descriptor: it
\* returns what it has read when the block is empty, when it has read as much
\* as the size it found, or when a file of known size gave a short block.
readFile_read(i) ==
    /\ calls[i].pc = "reading"
    /\ LET avail == IF Len(file.text) > calls[i].pos
                    THEN Len(file.text) - calls[i].pos ELSE 0
           n == Min(calls[i].length, avail)
           read == calls[i].data \o SubSeq(file.text, calls[i].pos + 1, calls[i].pos + n)
       IN  calls' = IF \/ n = 0
                       \/ calls[i].pos + n = calls[i].size
                       \/ (n # calls[i].length /\ calls[i].size # 0)
                    THEN Returned(i, read)
                    ELSE [calls EXCEPT ![i].data = read, ![i].pos = calls[i].pos + n]
    /\ UNCHANGED <<file, notNotes>>

NotesNext ==
    \/ \E i \in 1..MaxCalls, x \in Texts : add_note(i, x)
    \/ \E i \in 1..MaxCalls : readNotes(i)
    \/ \E i \in 1..MaxCalls : mkdir(i)
    \/ \E i \in 1..MaxCalls : ensureRead(i)
    \/ \E i \in 1..MaxCalls : writeFile_open(i)
    \/ \E i \in 1..MaxCalls : writeFile_write(i)
    \/ \E i \in 1..MaxCalls : readFile_fstat(i)
    \/ \E i \in 1..MaxCalls : readFile_read(i)

NotesSpec == NotesInit /\ [][NotesNext]_vars

\* ------------------------------------------------------------- the routes
\* The bearer credential of a request: one the gate refuses (absent,
\* malformed, refused by the verifier) or one the verifier accepts.
\* The credential of a request: no Authorization header, a bearer token the
\* introspection endpoint rejects, one it accepts.
Credentials == {"none", "bad", "good"}

\* tokenVerifier.verifyAccessToken returns a principal (lines 197-227): there
\* is an endpoint to ask and it accepts the token.
Verified(c) == introspection_endpoint # undefined /\ c = "good"

\* authMiddleware is assigned inside `if (useOAuth)` (lines 174-234), else it
\* stays null.
authMiddleware == IF useOAuth THEN "requireBearerAuth" ELSE "null"

\* if (useOAuth && authMiddleware)
Gated == useOAuth /\ authMiddleware # "null"

\* The credentials that make a difference: without the gate no code reads
\* the Authorization header.
Presented == IF Gated THEN Credentials ELSE {"none"}

\* The statuses the library's gate answers a refused request with.
RefusalStatuses == {401, 500}

\* The gate refuses a request of method m with the given status: it does not
\* call the handler; neither the session id header nor the body is read.
Unauthorized(m, status) ==
    [NoResponse EXCEPT !.method = m, !.status = status, !.kind = "auth"]

\* A request arrives at the server.
Receive ==
    /\ Running
    /\ nReq < MaxRequests
    /\ nReq' = nReq + 1

\* The request as the gate holds it while the verifier's fetch is pending; the
\* gate reads the header and the body of no request, and only a verified one
\* is handed on with them.
Held(m, c, h, b) ==
    IF Verified(c)
    THEN [method |-> m, cred |-> c, header |-> h, body |-> b]
    ELSE [method |-> m, cred |-> c, header |-> undefined, body |-> "none"]

\* The middleware of line 229 receives a request: without a bearer token it
\* refuses at once; with one it calls tokenVerifier.verifyAccessToken, which
\* throws before any await when the metadata names no endpoint (line 201),
\* and the gate answers at once; else it awaits the fetch of line 204.
requireBearerAuth(m, c, h, b) ==
    /\ Receive
    /\ IF c = "none"
       THEN /\ last' = Unauthorized(m, 401)
            /\ UNCHANGED gate
       ELSE IF introspection_endpoint = undefined
            THEN /\ last' = Unauthorized(m, 500)
                 /\ UNCHANGED gate
            ELSE /\ gate' = gate (+) SetToBag({Held(m, c, h, b)})
                 /\ last' = NoResponse
    /\ UNCHANGED <<transports, sessionId, closedWith, nUuid, reqs, sd, exitStatus,
                   issued>>
    /\ UNCHANGED notRoute

\* The verification of held request g settles: the verifier returned a
\* principal and the gate calls the route's handler, or it threw (line 216)
\* and the gate answers.
verifyAccessToken(g) ==
    /\ Running
    /\ gate' = gate (-) SetToBag({g})
    /\ UNCHANGED nReq
    /\ IF Verified(g.cred)
       THEN CASE g.method = "POST" -> mcpPostHandler(g.header, g.body)
              [] g.method = "GET" -> mcpGetHandler(g.header)
              [] g.method = "DELETE" -> mcpDeleteHandler(g.header)
       ELSE /\ \E st \in RefusalStatuses : last' = Unauthorized(g.method, st)
            /\ UNCHANGED <<transports, sessionId, closedWith, nUuid, reqs, sd,
                           exitStatus, issued>>
            /\ UNCHANGED notRoute

\* app.post('/mcp', [authMiddleware,] mcpPostHandler)
app_post(c, h, b) ==
    IF Gated
    THEN requireBearerAuth("POST", c, h, b)
    ELSE Receive /\ mcpPostHandler(h, b) /\ UNCHANGED gate

\* app.get('/mcp', [authMiddleware,] mcpGetHandler)
app_get(c, h) ==
    IF Gated
    THEN requireBearerAuth("GET", c, h, "none")
    ELSE Receive /\ mcpGetHandler(h) /\ UNCHANGED gate

\* Mutant of app_delete: the DELETE route is registered without the gate.
app_delete_Ungated(c, h) == Receive /\ mcpDeleteHandler(h) /\ UNCHANGED gate

\* app.delete('/mcp', [authMiddleware,] mcpDeleteHandler)
app_delete(c, h) ==
    IF Gated
    THEN requireBearerAuth("DELETE", c, h, "none")
    ELSE Receive /\ mcpDeleteHandler(h) /\ UNCHANGED gate

Next ==
    \/ \E c \in Presented, h \in HeaderValues, b \in Bodies : app_post(c, h, b)
    \/ \E c \in Presented, h \in HeaderValues : app_get(c, h)
    \/ \E c \in Presented, h \in HeaderValues : app_delete(c, h)
    \/ \E q \in InFlight : sessionIdGenerator(q)
    \/ \E q \in InFlight : ConnectRejects(q)
    \/ \E q \in InFlight : InitializeThrows(q)
    \/ \E q \in InFlight : onsessioninitialized(q)
    \/ \E q \in InFlight : InitializeSettles(q)
    \/ \E q \in InFlight : PostSettles(q)
    \/ \E q \in InFlight : GetSettles(q)
    \/ \E q \in InFlight : DeleteSettles(q)
    \/ \E t \in Transports : TransportCloses(t)
    \/ SIGINT
    \/ \E n \in DOMAIN sd : ShutdownResume(n)
    \/ \E code \in ErrorCodes : onerror(code)

Spec == Init /\ [][Next]_vars

\* The server with or without --oauth: the requests, the gate and the session
\* lifecycle.
AuthNext ==
    \/ \E c \in Presented, h \in HeaderValues, b \in Bodies : app_post(c, h, b)
    \/ \E c \in Presented, h \in HeaderValues : app_get(c, h)
    \/ \E c \in Presented, h \in HeaderValues : app_delete(c, h)
    \/ \E g \in BagToSet(gate) : verifyAccessToken(g)
    \/ \E q \in InFlight : sessionIdGenerator(q)
    \/ \E q \in InFlight : ConnectRejects(q)
    \/ \E q \in InFlight : InitializeThrows(q)
    \/ \E q \in InFlight : onsessioninitialized(q)
    \/ \E q \in InFlight : InitializeSettles(q)
    \/ \E q \in InFlight : PostSettles(q)
    \/ \E q \in InFlight : GetSettles(q)
    \/ \E q \in InFlight : DeleteSettles(q)
    \/ \E t \in Transports : TransportCloses(t)

AuthSpec == AuthInit /\ [][AuthNext]_vars

\* ----------------------------------------------- the resumable event store
\* The cursor append assigns: the next one of the stream.
NextCursor(s) == Len(log[s]) + 1

\* Mutant of Backlog: the replay starts at the given cursor instead of after it.
Backlog_Inclusive(s, k) == SelectSeq(log[s], LAMBDA e : e.cursor >= k)

\* The stored events of stream s with a cursor greater than k, in order.
Backlog(s, k) == SelectSeq(log[s], LAMBDA e : e.cursor > k)

\* append(streamId, payload): store the event under the next cursor; a sink
\* that is live on the stream receives it, a sink still replaying finds it in
\* the log after the backlog.
append(s, p) ==
    /\ Len(log[s]) < MaxEvents
    /\ LET e == [cursor |-> NextCursor(s), payload |-> p]
       IN  /\ log' = [log EXCEPT ![s] = Append(log[s], e)]
           /\ IF sink.pc = "live" /\ sink.stream = s
              THEN /\ delivered' = Append(delivered, e)
                   /\ sink' = [sink EXCEPT !.cursor = e.cursor]
              ELSE /\ delivered' = delivered
                   /\ sink' = IF sink.pc = "replaying" /\ sink.stream = s
                              THEN [sink EXCEPT !.queued = sink.queued + 1]
                              ELSE sink
    /\ UNCHANGED notStore

\* replayFrom(streamId, cursor, sink) on a known stream: the replay begins.
replayFrom(s, k) ==
    /\ sink.pc = "closed"
    /\ log[s] # <<>>
    /\ k \in 0..Len(log[s])
    /\ sink' = [pc |-> "replaying", stream |-> s, from |-> k, cursor |-> k,
                queued |-> 0]
    /\ delivered' = <<>>
    /\ UNCHANGED <<log, notStore>>

\* replayFrom on a stream the store does not know: NotFound.
replayNotFound(s) ==
    /\ sink.pc = "closed"
    /\ log[s] = <<>>
    /\ sink' = [NoSink EXCEPT !.pc = "notfound", !.stream = s]
    /\ delivered' = <<>>
    /\ UNCHANGED <<log, notStore>>

\* The replay delivers the next event of the backlog.
replayDeliver ==
    /\ sink.pc = "replaying"
    /\ Backlog(sink.stream, sink.cursor) # <<>>
    /\ LET e == Head(Backlog(sink.stream, sink.cursor))
       IN  /\ delivered' = Append(delivered, e)
           /\ sink' = [sink EXCEPT !.cursor = e.cursor]
    /\ UNCHANGED <<log, notStore>>

\* The backlog is drained: the sink stays subscribed, live.
replayDrained ==
    /\ sink.pc = "replaying"
    /\ Backlog(sink.stream, sink.cursor) = <<>>
    /\ sink' = [sink EXCEPT !.pc = "live"]
    /\ UNCHANGED <<log, delivered, notStore>>

\* The client drops the channel.
sinkCloses ==
    /\ sink.pc # "closed"
    /\ sink' = NoSink
    /\ delivered' = <<>>
    /\ UNCHANGED <<log, notStore>>

StoreNext ==
    \/ \E s \in Streams, p \in Payloads : append(s, p)
    \/ \E s \in Streams, k \in 0..MaxEvents : replayFrom(s, k)
    \/ \E s \in Streams : replayNotFound(s)
    \/ replayDeliver
    \/ replayDrained
    \/ sinkCloses

StoreSpec == Init /\ [][StoreNext]_vars

\* ------------------------------------------------------------------ claims
\* The handler invocation that the step just taken suspended, if any.
Arrived(q) == CopiesIn(q, reqs') > CopiesIn(q, reqs)

\* C1: every POST whose session id header is absent with a body that is not an
\* initialization request, or present but not in the registry (whatever the
\* body), is answered 400 with code -32000 and id null, creates no transport,
\* leaves the registry unchanged and invokes no transport's handleRequest.
C1_PostRejected ==
    [][ (/\ last'.method = "POST"
         /\ \/ last'.header = undefined /\ last'.body # "initialize"
            \/ last'.header # undefined /\ ~last'.own)
        => (/\ last'.status = 400
            /\ last'.code = InvalidRequestCode
            /\ last'.id = "null"
            /\ ~last'.invoked
            /\ last'.t = 0
            /\ UNCHANGED <<transports, sessionId>>) ]_vars

\* C2: once a session id has been closed, it never becomes resolvable in the
\* registry again, every later request bearing it is rejected (400) instead of
\* routed, and no new session is created under it.
C2_ClosedStaysClosed ==
    [][ \A id \in ClosedIds :
          /\ ~HasOwn(transports', id)
          /\ \A t \in 1..Len(sessionId') :
                sessionId'[t] = id => (t \in Transports /\ sessionId[t] = id)
          /\ nReq' = nReq + 1 =>
                /\ \A q \in BagToSet(reqs') : Arrived(q) => q.header # id
                /\ last'.header = id => last'.status = 400 ]_vars

\* C3: initialization requests receive pairwise distinct session ids, and in
\* every reachable state each registered id maps to exactly one transport,
\* the live (not closed) transport that owns that id.
C3_SessionUniqueness ==
    /\ \A t1, t2 \in Transports :
          (Truthy(sessionId[t1]) /\ sessionId[t1] = sessionId[t2]) => t1 = t2
    /\ \A i, j \in DOMAIN transports :
          transports[i].key = transports[j].key => i = j
    /\ \A i \in DOMAIN transports :
          /\ transports[i].val \in Transports
          /\ sessionId[transports[i].val] = transports[i].key
          /\ ~IsClosed(transports[i].val)

\* C4: while a transport's session id is not yet committed by
\* onsessioninitialized, no request holds that transport, the registry does
\* not contain it, and a request bearing its id is answered 400 without any
\* transport being invoked.
C4_NoPrematureVisibility ==
    \A i \in InFlight :
       i.pc \in {"connecting", "allocated"} =>
          /\ \A q \in InFlight : q.pc = "handling" => q.t # i.t
          /\ \A k \in DOMAIN transports : transports[k].val # i.t
          /\ (Truthy(last.header) /\ last.header = sessionId[i.t]) =>
                (last.status = 400 /\ ~last.invoked /\ last.t = 0)

\* C4 witness: a request bearing an id that is allocated but not yet
\* registered was answered 400.
C4_Witness ==
    \E i \in InFlight :
       /\ i.pc = "allocated"
       /\ last.header = sessionId[i.t]
       /\ last.status = 400

\* C5: once an initialization request has returned its session id to the
\* client, and for as long as that session's transport is not closed, the id
\* resolves to that transport and every request arriving with the id is
\* routed to it.
C5_EstablishedResolves ==
    [][ \A t \in Transports :
          (sessionId[t] \in issued /\ ~IsClosed(t)) =>
             /\ GetProp(transports, sessionId[t]) = [tag |-> "transport", t |-> t]
             /\ nReq' = nReq + 1 =>
                   /\ last'.header # sessionId[t]
                   /\ \A q \in BagToSet(reqs') :
                         (Arrived(q) /\ q.header = sessionId[t]) =>
                            (q.pc = "handling" /\ q.t = t) ]_vars

\* C5 witness: a request is being handled by the transport of a session whose
\* id was returned to the client and which is not closed.
C5_Witness ==
    \E q \in InFlight :
       /\ q.pc = "handling"
       /\ q.header \in issued
       /\ ~IsClosed(q.t)
       /\ sessionId[q.t] = q.header

\* C9: a GET or DELETE whose session id header is missing or not in the
\* registry is answered 400, invokes no transport and leaves the registry
\* unchanged.
C9_GetDeleteRejected ==
    [][ (/\ last'.method \in {"GET", "DELETE"}
         /\ (last'.header = undefined \/ ~last'.own))
        => (/\ last'.status = 400
            /\ ~last'.invoked
            /\ last'.t = 0
            /\ UNCHANGED transports) ]_vars

\* The sessions registered when the signal of invocation n arrived.
SnapshotKeys(n) == {sd[n].keys[i] : i \in DOMAIN sd[n].keys}

\* The sessions the for-in loop of invocation n has gone past.
VisitedKeys(n) == {sd[n].keys[i] : i \in 1..(sd[n].idx - 1)}

\* C7 (as claimed): when an invocation of the shutdown handler exits the
\* process, it has attempted close on every session that was registered when
\* its signal arrived, whatever closes threw, and the exit status is 0.
C7_AttemptsAll ==
    \A n \in DOMAIN sd :
       sd[n].pc = "exited" =>
          (exitStatus = "0" /\ SnapshotKeys(n) \subseteq sd[n].attempted)

\* C7 (amended): the handler attempts close on every snapshot session that is
\* still registered when the loop reaches it (a session skipped was closed
\* and deregistered by someone else meanwhile); a close that threw never
\* stops the loop; and the process exits with status 0 exactly when an
\* invocation has gone past the last session of its snapshot (the only other
\* exit is the one of the server's 'error' listener, with status 1).
C7_ShutdownCompleteness ==
    /\ \A n \in DOMAIN sd :
          /\ VisitedKeys(n) \subseteq (sd[n].attempted \cup ClosedIds)
          /\ sd[n].pc = "exited" =>
                (exitStatus = "0" /\ VisitedKeys(n) = SnapshotKeys(n))
          /\ (Running /\ sd[n].pc \in {"closed", "threw"}) =>
                ENABLED ShutdownResume(n)
    /\ exitStatus = "0" <=> \E n \in DOMAIN sd : sd[n].pc = "exited"

\* C7 witness: the process exited after a shutdown over two sessions where
\* the close of the first one threw (it is still registered) and the second
\* one was closed.
C7_Witness ==
    \E n \in DOMAIN sd :
       /\ sd[n].pc = "exited"
       /\ Len(sd[n].keys) = 2
       /\ SnapshotKeys(n) = sd[n].attempted
       /\ HasOwn(transports, sd[n].keys[1])
       /\ ~HasOwn(transports, sd[n].keys[2])

\* C8: whenever the transport of a registered session closes (DELETE, the
\* transport's close event, or the shutdown handler's close), its session id
\* is not in the registry immediately after the close.
C8_CloseDeregisters ==
    [][ \A t \in Transports :
          (/\ ~IsClosed(t)
           /\ closedWith'[t] # "open"
           /\ HasOwn(transports, sessionId[t]))
          => ~HasOwn(transports', sessionId[t]) ]_vars

\* C8 witness: the shutdown handler's close of one session has returned with
\* the id already gone from the registry, and a DELETE of another session was
\* just acknowledged with its id gone as well.
C8_Witness ==
    \E n \in DOMAIN sd :
       /\ sd[n].pc = "closed"
       /\ ~HasOwn(transports, LoopKey(n))
       /\ last.method = "DELETE"
       /\ last.kind = "transport"
       /\ last.header # LoopKey(n)
       /\ last.header \in ClosedIds
       /\ ~HasOwn(transports, last.header)

\* The registry reg without key k.
Without(reg, k) == SelectSeq(reg, LAMBDA e : e.key # k)

\* C10: removal is idempotent: a transport closing while its session id is
\* undefined or not registered (its first close or a repeated one) leaves the
\* registry unchanged; and the shutdown handler's delete of an id that onclose
\* already removed removes nothing (the registry changes in that step only by
\* the close of the next session) and the loop carries on normally.
C10_IdempotentRemoval ==
    [][ /\ \A t \in Transports :
             (/\ \/ closedWith'[t] # closedWith[t]
                 \/ (last'.method = "DELETE" /\ last'.kind = "transport"
                       /\ last'.t = t)
              /\ ~HasOwn(transports, sessionId[t]))
             => transports' = transports
        /\ \A n \in DOMAIN sd :
             (sd[n].pc = "closed" /\ sd'[n] # sd[n] /\ ~HasOwn(transports, LoopKey(n)))
             => (/\ sd'[n].idx = NextIdx(transports, sd[n].keys, sd[n].idx + 1)
                 /\ \/ transports' = transports
                    \/ /\ sd'[n].pc \in {"closed", "threw"}
                       /\ transports' =
                             Without(transports, sd'[n].keys[sd'[n].idx])) ]_vars

\* C10 witness: a transport closed before it had a session id (onclose ran
\* with nothing to remove), and the shutdown handler is about to delete the
\* id of another session, which onclose already removed.
C10_Witness ==
    /\ \E t \in Transports : closedWith[t] = undefined /\ sessionId[t] = undefined
    /\ \E n \in DOMAIN sd :
          /\ sd[n].pc = "closed"
          /\ ~HasOwn(transports, LoopKey(n))
          /\ LoopKey(n) \in ClosedIds

\* C6: a sink reopened on a stream with last-seen cursor k has received
\* exactly the events k+1, k+2, ... up to its current position, each once and
\* in cursor order, whatever appends interleaved with the replay; and once it
\* is live it has received every event of the stream after k.
C6_ReplayCorrectness ==
    sink.pc \in {"replaying", "live"} =>
       /\ \A i \in DOMAIN log[sink.stream] : log[sink.stream][i].cursor = i
       /\ sink.cursor \in sink.from..Len(log[sink.stream])
       /\ delivered = [i \in 1..(sink.cursor - sink.from) |->
                          log[sink.stream][sink.from + i]]
       /\ sink.pc = "live" => sink.cursor = Len(log[sink.stream])

\* C6 witness: a sink reopened with a cursor k >= 1 is live after a replay
\* during which an event was appended to its stream, and it has received
\* at least two events.
C6_Witness ==
    /\ sink.pc = "live"
    /\ sink.from >= 1
    /\ sink.queued >= 1
    /\ Len(delivered) >= 2

\* C11: on every method, when a transport's handleRequest was called for the
\* request and failed, the client receives a structured error object with
\* the internal-error code if no part of the response was sent yet, and no
\* error body if the response had started.
C11_InternalErrorShape ==
    [][ (/\ last'.method \in Methods
         /\ last'.invoked
         /\ last'.kind # "transport")
        => \/ last'.kind = "partial"
           \/ /\ last'.kind = "jsonrpc"
              /\ last'.status = 500
              /\ last'.code = InternalErrorCode ]_vars

\* C12: every rejection for a missing or unknown session id (a 400), on
\* every method, is a structured error object with the invalid-request code
\* and a null id.
C12_RejectionShape ==
    [][ (last'.method \in Methods /\ last'.status = 400)
        => (/\ last'.kind = "jsonrpc"
            /\ last'.code = InvalidRequestCode
            /\ last'.id = "null") ]_vars

\* The credentials the gate refuses.
Refused == {c \in Credentials : ~Verified(c)}

\* The step is the arrival of a request with a refused credential.
RefusedArrival ==
    \E c \in Refused, h \in HeaderValues :
       \/ \E b \in Bodies : app_post(c, h, b)
       \/ app_get(c, h)
       \/ app_delete(c, h)

\* The step takes a request with a refused credential out of the gate.
RefusedLeaves ==
    \E g \in BagToSet(gate) :
       ~Verified(g.cred) /\ CopiesIn(g, gate') < CopiesIn(g, gate)

\* C13: with authentication enabled, on all three routes the gate runs before
\* the handler (the arrival of a request looks up, creates, suspends and
\* invokes nothing), and a request whose credential fails verification is
\* answered by the gate and never reaches a handler, at its arrival or when
\* its verification settles; with authentication disabled no request is held
\* or answered by the gate.
C13_AuthGate ==
    [][ /\ (useOAuth /\ nReq' = nReq + 1) =>
             /\ last'.kind \in {"none", "auth"}
             /\ UNCHANGED <<transports, sessionId, closedWith, nUuid, reqs>>
        /\ (useOAuth /\ nReq' = nReq + 1 /\ RefusedArrival) =>
             \/ last'.kind = "auth"
             \/ \E g \in BagToSet(gate') :
                   ~Verified(g.cred) /\ CopiesIn(g, gate') > CopiesIn(g, gate)
        /\ (RefusedLeaves \/ last'.kind = "auth") =>
             /\ useOAuth
             /\ last'.kind = "auth"
             /\ ~last'.own /\ ~last'.invoked /\ last'.t = 0
             /\ UNCHANGED <<transports, sessionId, closedWith, nUuid, reqs>>
        /\ ~useOAuth => (gate' = EmptyBag /\ last'.kind # "auth") ]_vars

\* C13 witness: with authentication enabled and a session established, a
\* DELETE naming it whose token failed verification was refused by the gate
\* after its suspension, and the session is still registered and open.
C13_Witness ==
    /\ useOAuth
    /\ last.kind = "auth"
    /\ last.status = 500
    /\ last.method = "DELETE"
    /\ \E t \in Transports :
          /\ sessionId[t] \in issued
          /\ HasOwn(transports, sessionId[t])
          /\ ~IsClosed(t)

\* The configuration names a port: MCP_PORT is set to a non-empty string.
PortFixed == env.set /\ env.val # <<>>

\* C14: when a listen attempt fails, the server retries on port 0 exactly
\* when the error is EADDRINUSE, the configuration names no port and no
\* fallback was made yet (the failed attempt was not the ephemeral one); in
\* every other case the process exits with status 1; so there is at most
\* one fallback.
C14_PortFallback ==
    [][ /\ Len(srv'.errors) = Len(srv.errors) + 1 =>
             IF /\ srv'.errors[Len(srv'.errors)] = "EADDRINUSE"
                /\ ~PortFixed
                /\ srv.fallbacks = 0
             THEN /\ srv'.pc = "binding"
                  /\ srv'.port = 0
                  /\ srv'.fallbacks = 1
                  /\ exitStatus' = "running"
             ELSE /\ srv'.pc = "failed"
                  /\ srv'.fallbacks = srv.fallbacks
                  /\ exitStatus' = "1"
        /\ srv'.fallbacks <= 1 ]_vars

\* C14 witness: the default port was in use, the server fell back to port 0,
\* that attempt failed with EADDRINUSE too, and the process exited with
\* status 1 after its single fallback; the server was started with --oauth
\* and the module body built its two URLs.
C14_Witness ==
    /\ useOAuth
    /\ ~env.set
    /\ srv.errors = <<"EADDRINUSE", "EADDRINUSE">>
    /\ srv.fallbacks = 1
    /\ srv.port = 0
    /\ exitStatus = "1"

\* C15: the shutdown handler is never blocked by a session: while it waits
\* for a session's close, also one that neither returns nor throws, it is
\* able to go on to the remaining sessions and to the exit of the process.
C15_ShutdownNeverBlocked ==
    \A n \in DOMAIN sd :
       (Running /\ sd[n].pc # "exited") => ENABLED ShutdownResume(n)

\* C16: in every reachable state no registry entry holds a transport that
\* has been closed; a transport closed before its onsessioninitialized
\* callback ran is not published by that callback afterwards.
C16_NoClosedRegistered ==
    \A i \in DOMAIN transports : closedWith[transports[i].val] = "open"

\* The step just taken operated on the session registered under key k: its
\* transport closed, a DELETE for it settled, the shutdown loop called close
\* on it, or the shutdown loop deleted it after its close returned.
OperatedOn(k) ==
    LET t == GetProp(transports, k).t
    IN  \/ closedWith'[t] # closedWith[t]
        \/ last'.method = "DELETE" /\ last'.invoked /\ last'.t = t
        \/ \E n \in DOMAIN sd' :
              /\ n \in DOMAIN sd => sd'[n] # sd[n]
              /\ sd'[n].pc \in {"closed", "threw", "pending"}
              /\ sd'[n].keys[sd'[n].idx] = k
        \/ \E n \in DOMAIN sd :
              /\ sd'[n] # sd[n]
              /\ sd[n].pc = "closed"
              /\ LoopKey(n) = k

\* C17: sessions do not interfere: a step changes or removes the registry
\* entry of a session only if it is an operation on that very session; every
\* request, settlement, close event or shutdown close failure of a session A
\* leaves the entry of every other session B as it was.
C17_NonInterference ==
    [][ \A k \in OwnKeys(transports) :
          \/ OperatedOn(k)
          \/ /\ HasOwn(transports', k)
             /\ GetProp(transports', k) = GetProp(transports, k) ]_vars

\* C17 witness: the DELETE of one session was just acknowledged and its id is
\* gone, while another session, established and open, is still registered
\* with its own transport.
C17_Witness ==
    /\ last.method = "DELETE"
    /\ last.kind = "transport"
    /\ ~HasOwn(transports, last.header)
    /\ \E t \in Transports :
          /\ sessionId[t] \in issued
          /\ sessionId[t] # last.header
          /\ ~IsClosed(t)
          /\ GetProp(transports, sessionId[t]) = [tag |-> "transport", t |-> t]

\* C18: when the handling of an initialization request ends with the 500
\* internal-error response, the transport that request created is not in the
\* registry.
C18_FailedInitNotRegistered ==
    [][ (/\ last'.method = "POST"
         /\ last'.header = undefined
         /\ last'.body = "initialize"
         /\ last'.status = 500
         /\ last'.code = InternalErrorCode)
        => \A i \in DOMAIN transports' : transports'[i].val # last'.t ]_vars

\* C19: when the shutdown handler has exited the process, every session in
\* the registry is one on which a handler invocation attempted close, the sessions
\* registered while the loop awaited another session's close included.
C19_NoUnattemptedAtExit ==
    (\E n \in DOMAIN sd : sd[n].pc = "exited") =>
       OwnKeys(transports) \subseteq UNION {sd[n].attempted : n \in DOMAIN sd}


\* The line a call's note makes in the file.
NoteLine(i) == trim(calls[i].text) \o <<LF>>

\* The call is an add_note whose text is not blank.
Adds(i) == calls[i].op = "add_note" /\ trim(calls[i].text) # <<>>

\* C20: after two add_note calls with non-blank texts have both completed,
\* however their steps interleaved, the notes file holds both notes; and the
\* content of the notes file is changed by no call whose text is blank after
\* trimming: only by the write of a non-blank note, or by the creation of the
\* file that did not exist.
C20_NoLostNote ==
    [][ /\ (\A i \in 1..MaxCalls : Adds(i) /\ calls'[i].pc = "done")
             => \A i \in 1..MaxCalls :
                   \E k \in 0..(Len(file'.text) - Len(NoteLine(i))) :
                      SubSeq(file'.text, k + 1, k + Len(NoteLine(i))) = NoteLine(i)
        /\ file' # file
             => \E i \in 1..MaxCalls :
                   \/ calls[i].pc \in {"create", "creating"}
                   \/ Adds(i) /\ calls[i].pc \in {"write", "writing"} ]_vars

====
